---- MODULE Spec2Model ----
(***************************************************************************)
(* CSRank Bridge Server (src/server.js): the MatchZy webhook, the match    *)
(* and player-stat ingestion, the aggregate recomputation and the Steam    *)
(* login upsert, over a document store with the collections matches,       *)
(* matchStats and users.                                                   *)
(*                                                                         *)
(* JavaScript values.  A property that may be absent is a sequence of      *)
(* length at most one: <<>> is undefined, <<v>> is the value v.  Steam     *)
(* identities and match ids are strings, statistics are non-negative       *)
(* integers.  A string produced by Number.prototype.toFixed(d) is the      *)
(* record [t |-> "str", n |-> k, d |-> d] that stands for the decimal      *)
(* numeral k / 10^d; a plain number k is [t |-> "num", n |-> k, d |-> 0].  *)
(* A server timestamp is the value of the clock `now` when the write is    *)
(* applied.                                                                *)
(***************************************************************************)
EXTENDS Integers, Sequences, FiniteSets, TLC

None == <<>>
Some(v) == <<v>>
IsSome(o) == Len(o) = 1

\* `o || d` for an optional number o and a number d: 0 and undefined are falsy
OrNum(o, d) == IF Len(o) = 1 /\ o[1] # 0 THEN o[1] ELSE d
\* `o || d` for an optional string o and a string d: "" and undefined are falsy
OrStr(o, d) == IF Len(o) = 1 /\ o[1] # "" THEN o[1] ELSE d
\* `o || d` for an optional object or array o: every object is truthy
OrObj(o, d) == IF Len(o) = 1 THEN o[1] ELSE d

(***************************************************************************)
(* Bounds of the model.                                                    *)
(***************************************************************************)
MaxTime == 2
MaxDeliveries == 2
MaxRecords == 4
MaxLogins == 1
MaxScore == 2
MaxKills == 40

(***************************************************************************)
(* Numbers are IEEE 754 doubles.  For integers num >= 0 and den > 0 the    *)
(* code computes x = num / den, or x = (num / den) * 100 (two roundings),  *)
(* and then Math.round(x) or x.toFixed(d).  Both pick the integer N with   *)
(* N / P nearest to x (P = 1 for Math.round, P = 10^d for toFixed), the    *)
(* larger N when x is exactly half way.  RoundDouble gives that N.  When   *)
(* the exact quotient is not half way between two candidates the rounding  *)
(* error of x (below 2^-50 relative) cannot change N.  When it is, N       *)
(* depends on whether x fell below the exact value: fnum / den is the      *)
(* error of the division in units of its last place (round to nearest,     *)
(* ties to even), and T against H compares the product, rounded again,     *)
(* with the half-way value.  Integer arithmetic throughout; exact for      *)
(* operands below 2^15.                                                    *)
(***************************************************************************)
Pow10(d) == IF d = 0 THEN 1 ELSE IF d = 1 THEN 10 ELSE 100

RECURSIVE PowMod2(_, _)
PowMod2(e, m) == IF e = 0 THEN 1 % m ELSE (2 * PowMod2(e - 1, m)) % m

\* the largest a with 2^a <= n / d, for n > 0 and d > 0
RECURSIVE Log2Floor(_, _)
Log2Floor(n, d) ==
  IF n >= d THEN (IF 2 * d <= n THEN 1 + Log2Floor(n, 2 * d) ELSE 0)
  ELSE Log2Floor(2 * n, d) - 1

IsPow2(n, d) ==
  LET a == Log2Floor(n, d)
  IN IF a >= 0 THEN n = d * 2^a ELSE n * 2^(0 - a) = d

RoundDouble(num, den, c, P) ==
  LET A == 2 * c * P * num
      j == (A \div den - 1) \div 2
      a == Log2Floor(num, den)
      rem == (num * PowMod2(52 - a, den)) % den
      odd == (num * PowMod2(52 - a, 2 * den)) % (2 * den) >= den
      fnum == IF 2 * rem < den \/ (2 * rem = den /\ ~odd) THEN 0 - rem ELSE den - rem
      b == Log2Floor(c * num, den)
      bb == IF IsPow2(c * num, den) THEN b - 1 ELSE b
      D == bb - a
      gnum == ((2 * j + 1) * PowMod2(52 - bb, 2 * P)) % (2 * P)
      T == gnum * den * 2^D + c * fnum * 2 * P
      H == P * den * 2^D
      lowerOdd == ((2 * j + 1) * PowMod2(52 - bb, 4 * P)) % (4 * P) >= 2 * P
      up == IF c = 1 THEN fnum >= 0
            ELSE IF gnum = 0 THEN T >= 0 - H
            ELSE T > H \/ (T = H /\ lowerOdd)
  IN IF A % den = 0 /\ (A \div den) % 2 = 1
     THEN (IF up THEN j + 1 ELSE j)
     ELSE (A + den) \div (2 * den)

\* Math.round((num / den) * 100)
MathRoundPercent(num, den) == RoundDouble(num, den, 100, 1)
\* (num / den).toFixed(d), and ((num / den) * 100).toFixed(d)
ToFixed(num, den, d) == [t |-> "str", n |-> RoundDouble(num, den, 1, Pow10(d)), d |-> d]
ToFixedPercent(num, den, d) ==
  [t |-> "str", n |-> RoundDouble(num, den, 100, Pow10(d)), d |-> d]
Num(k) == [t |-> "num", n |-> k, d |-> 0]

(***************************************************************************)
(* The webhook payload (spec section 6, read by processMatchEnd and        *)
(* processPlayerStats).                                                    *)
(***************************************************************************)
StatFields ==
  {"kills", "deaths", "assists", "adr", "kast", "rating", "headshot_kills",
   "mvps", "utility_damage", "enemies_flashed", "flash_assists",
   "bomb_plants", "bomb_defuses", "first_kills", "first_deaths",
   "clutches_won", "damage"}

NoStats == [f \in StatFields |-> None]

\* `player.f || player.stats?.f || 0`
StatOf(player, f) ==
  OrNum(player.inl[f],
        OrNum(IF IsSome(player.stats) THEN player.stats[1][f] ELSE None, 0))

\* calculateHSPercent(player)
calculateHSPercent(player) ==
  LET kills == StatOf(player, "kills")
      hsKills == StatOf(player, "headshot_kills")
  IN IF kills = 0 THEN 0 ELSE MathRoundPercent(hsKills, kills)

EmptyTeam == [name |-> None, score |-> None, series_score |-> None, players |-> None]

\* `data.team1 || data.params?.team1 || {}` and the same for team2
TeamOf(data, k) ==
  LET top == IF k = 1 THEN data.team1 ELSE data.team2
      nested == IF IsSome(data.params)
                THEN (IF k = 1 THEN data.params[1].team1 ELSE data.params[1].team2)
                ELSE None
  IN OrObj(top, OrObj(nested, EmptyTeam))

\* `team.score || team.series_score || 0`
ScoreOf(team) == OrNum(team.score, OrNum(team.series_score, 0))

\* `data.matchid || `match_${Date.now()}``
FallbackId(t) == "match_" \o ToString(t)
\* defective variant: the time-derived id is used even when the body has a matchid
MatchIdFresh(data, t) == FallbackId(t)
MatchIdOf(data, t) == OrStr(data.matchid, FallbackId(t))

\* defective variant: equal scores are given to team 1
WinnerOfNoDraw(scoreTeam1, scoreTeam2) == IF scoreTeam1 >= scoreTeam2 THEN 1 ELSE 2

\* `scoreTeam1 > scoreTeam2 ? 1 : (scoreTeam2 > scoreTeam1 ? 2 : 0)`
WinnerOf(scoreTeam1, scoreTeam2) ==
  IF scoreTeam1 > scoreTeam2 THEN 1 ELSE IF scoreTeam2 > scoreTeam1 THEN 2 ELSE 0

\* the matchData object of processMatchEnd, without its two server timestamps
MatchDataOf(data, t) ==
  LET team1 == TeamOf(data, 1)
      team2 == TeamOf(data, 2)
      scoreTeam1 == ScoreOf(team1)
      scoreTeam2 == ScoreOf(team2)
  IN [matchzyId |-> MatchIdOf(data, t),
      map |-> OrStr(data.map_name, OrStr(data.map, "unknown")),
      team1Name |-> OrStr(team1.name, "Team 1"),
      team2Name |-> OrStr(team2.name, "Team 2"),
      scoreTeam1 |-> scoreTeam1,
      scoreTeam2 |-> scoreTeam2,
      isDraw |-> (scoreTeam1 = scoreTeam2),
      winner |-> WinnerOf(scoreTeam1, scoreTeam2),
      rawData |-> data]

\* date and createdAt are FieldValue.serverTimestamp(): the time of the write
MatchDoc(matchData, t) == matchData @@ [date |-> t, createdAt |-> t]

Tag(players, k) == [i \in 1..Len(players) |-> [p |-> players[i], team |-> k]]

\* allPlayers: team1's players tagged team 1, then team2's tagged team 2
AllPlayersOf(data) ==
  Tag(OrObj(TeamOf(data, 1).players, <<>>), 1) \o
  Tag(OrObj(TeamOf(data, 2).players, <<>>), 2)

\* `player.steamid || player.steam_id`: "" stands for a falsy result
SteamIdOf(player) == OrStr(player.steamid, OrStr(player.steam_id, ""))

\* `${matchId}_${steamId}`
StatsIdOf(matchId, steamId) == matchId \o "_" \o steamId

\* defective variant: isWinner is left undefined in a drawn match
IsWinnerUnlessDraw(matchData, team) ==
  IF matchData.isDraw THEN None ELSE Some(matchData.winner = team)

\* `isWinner: matchData.winner === player.team`
IsWinnerOf(matchData, team) == Some(matchData.winner = team)

\* the stats object of processPlayerStats, with its date resolved at time t
StatsDoc(matchId, tp, matchData, t) ==
  LET player == tp.p
      steamId == SteamIdOf(player)
  IN [matchId |-> matchId,
      oderId |-> steamId,
      odertId |-> steamId,
      oderne |-> OrStr(player.name, "Unknown"),
      team |-> tp.team,
      teamName |-> IF tp.team = 1 THEN matchData.team1Name ELSE matchData.team2Name,
      isWinner |-> IsWinnerOf(matchData, tp.team),
      kills |-> StatOf(player, "kills"),
      deaths |-> StatOf(player, "deaths"),
      assists |-> StatOf(player, "assists"),
      adr |-> StatOf(player, "adr"),
      kast |-> StatOf(player, "kast"),
      rating |-> StatOf(player, "rating"),
      headshots |-> StatOf(player, "headshot_kills"),
      headshotPercent |-> calculateHSPercent(player),
      mvps |-> StatOf(player, "mvps"),
      utilityDamage |-> StatOf(player, "utility_damage"),
      enemiesFlashed |-> StatOf(player, "enemies_flashed"),
      flashAssists |-> StatOf(player, "flash_assists"),
      plants |-> StatOf(player, "bomb_plants"),
      defuses |-> StatOf(player, "bomb_defuses"),
      firstKills |-> StatOf(player, "first_kills"),
      firstDeaths |-> StatOf(player, "first_deaths"),
      clutchesWon |-> StatOf(player, "clutches_won"),
      damage |-> StatOf(player, "damage"),
      map |-> matchData.map,
      date |-> t]

(***************************************************************************)
(* updatePlayerAggregatedStats: the fold of a query snapshot (a function   *)
(* from document keys to matchStats documents).  `s.f || 0` is s.f for    *)
(* the numbers the documents hold.                                         *)
(***************************************************************************)
RECURSIVE SumOf(_, _, _)
SumOf(snap, keys, f) ==
  IF keys = {} THEN 0
  ELSE LET k == CHOOSE x \in keys : TRUE
       IN snap[k][f] + SumOf(snap, keys \ {k}, f)

Total(snap, f) == SumOf(snap, DOMAIN snap, f)

\* `if (s.isWinner === true) wins++; else if (s.isWinner === false) losses++; else draws++`
WinsOf(snap) == Cardinality({k \in DOMAIN snap : snap[k].isWinner = Some(TRUE)})
\* defective variant: `else losses++` for every record that is not a win
LossesOfNotWon(snap) == Cardinality({k \in DOMAIN snap : snap[k].isWinner # Some(TRUE)})
LossesOf(snap) == Cardinality({k \in DOMAIN snap : snap[k].isWinner = Some(FALSE)})
DrawsOf(snap) ==
  Cardinality({k \in DOMAIN snap :
                 snap[k].isWinner # Some(TRUE) /\ snap[k].isWinner # Some(FALSE)})

\* `matchCount > 0 ? (total / matchCount).toFixed(d) : 0`
Avg(total, matchCount, d) ==
  IF matchCount > 0 THEN ToFixed(total, matchCount, d) ELSE Num(0)

\* the `aggregated` object, without its lastUpdated server timestamp
Aggregated(snap) ==
  LET matchCount == Cardinality(DOMAIN snap)
      totalKills == Total(snap, "kills")
      totalDeaths == Total(snap, "deaths")
      wins == WinsOf(snap)
  IN [totalMatches |-> matchCount,
      totalKills |-> totalKills,
      totalDeaths |-> totalDeaths,
      totalAssists |-> Total(snap, "assists"),
      kdRatio |-> IF totalDeaths > 0 THEN ToFixed(totalKills, totalDeaths, 2)
                  ELSE Num(totalKills),
      avgAdr |-> Avg(Total(snap, "adr"), matchCount, 1),
      avgRating |-> Avg(Total(snap, "rating"), matchCount, 2),
      avgHsPercent |-> Avg(Total(snap, "headshotPercent"), matchCount, 1),
      avgKast |-> Avg(Total(snap, "kast"), matchCount, 1),
      wins |-> wins,
      losses |-> LossesOf(snap),
      draws |-> DrawsOf(snap),
      winRate |-> IF matchCount > 0 THEN ToFixedPercent(wins, matchCount, 1) ELSE Num(0),
      totalMvps |-> Total(snap, "mvps"),
      totalPlants |-> Total(snap, "plants"),
      totalDefuses |-> Total(snap, "defuses"),
      totalClutches |-> Total(snap, "clutchesWon"),
      totalFirstKills |-> Total(snap, "firstKills"),
      totalFirstDeaths |-> Total(snap, "firstDeaths"),
      totalUtilityDamage |-> Total(snap, "utilityDamage"),
      totalEnemiesFlashed |-> Total(snap, "enemiesFlashed"),
      totalFlashAssists |-> Total(snap, "flashAssists")]

\* lastUpdated is FieldValue.serverTimestamp(): the time of the write
AggregatedDoc(aggregated, t) == aggregated @@ [lastUpdated |-> t]

\* defective variant: the query returns at most one document, as with limit(1)
QueryLimitOne(store, steamId) ==
  LET keys == {x \in DOMAIN store : store[x].oderId = steamId}
  IN [k \in (IF keys = {} THEN {} ELSE {CHOOSE x \in keys : TRUE}) |-> store[k]]

\* `db.collection('matchStats').where('oderId', '==', steamId).get()`
QueryByOderId(store, steamId) ==
  [k \in {x \in DOMAIN store : store[x].oderId = steamId} |-> store[k]]

(***************************************************************************)
(* Inputs: the player objects, team objects and webhook bodies delivered.  *)
(***************************************************************************)
SteamIds == {"765611", "765612"}

PlayerAna ==
  [steamid |-> Some("765611"), steam_id |-> None, name |-> Some("ana"),
   inl |-> [NoStats EXCEPT !["kills"] = Some(2), !["deaths"] = Some(1),
                           !["headshot_kills"] = Some(1)],
   stats |-> None]

PlayerAnaLater ==
  [steamid |-> Some("765611"), steam_id |-> None, name |-> Some("ana"),
   inl |-> [NoStats EXCEPT !["kills"] = Some(1), !["mvps"] = Some(1)],
   stats |-> None]

PlayerBea ==
  [steamid |-> None, steam_id |-> Some("765612"), name |-> None,
   inl |-> NoStats,
   stats |-> Some([NoStats EXCEPT !["kills"] = Some(3), !["deaths"] = Some(2)])]

PlayerNoId ==
  [steamid |-> None, steam_id |-> None, name |-> Some("bot"),
   inl |-> [NoStats EXCEPT !["kills"] = Some(1)],
   stats |-> None]

TeamA == [name |-> Some("A"), score |-> Some(2), series_score |-> None,
          players |-> Some(<<PlayerAna>>)]
TeamB == [name |-> None, score |-> None, series_score |-> Some(1),
          players |-> Some(<<PlayerBea>>)]
TeamC == [name |-> Some("C"), score |-> Some(1), series_score |-> None,
          players |-> Some(<<PlayerNoId, PlayerAnaLater>>)]
TeamD == [name |-> Some("D"), score |-> Some(1), series_score |-> None,
          players |-> Some(<<PlayerBea, PlayerNoId>>)]
TeamE == [name |-> Some("E"), score |-> Some(0), series_score |-> Some(3),
          players |-> Some(<<PlayerAna, PlayerNoId>>)]

Body(event, matchid, team1, team2) ==
  [event |-> event, matchid |-> matchid, map_name |-> None, map |-> Some("de_dust2"),
   team1 |-> team1, team2 |-> team2, params |-> None]

Wrapped(event, matchid, team1, team2) ==
  [event |-> event, matchid |-> matchid, map_name |-> Some("de_inferno"), map |-> None,
   team1 |-> None, team2 |-> None,
   params |-> Some([team1 |-> team1, team2 |-> team2])]

Payloads ==
  {Body(Some("match_end"), Some("m1"), Some(TeamA), Some(TeamB)),
   Body(Some("match_end"), Some("m2"), Some(TeamC), Some(TeamD)),
   Body(Some("match_end"), None, Some(TeamA), None),
   Wrapped(Some("series_end"), Some("m1"), Some(TeamC), Some(TeamB)),
   Body(Some("map_result"), Some("m2"), Some(TeamE), Some(TeamB)),
   Body(Some("round_end"), Some("m1"), Some(TeamA), Some(TeamB)),
   Body(Some("player_death"), Some("m1"), Some(TeamA), Some(TeamB)),
   Body(None, Some("m1"), Some(TeamA), Some(TeamB))}

(***************************************************************************)
(* State.                                                                  *)
(*   now        the clock read by Date.now() and by server timestamps      *)
(*   matches, matchStats, users   the three collections, key -> document   *)
(*   req        per webhook handler: where it is suspended, its locals and *)
(*              the number of responses it has sent to the current request *)
(*   login      the Steam callback handler: where it is suspended          *)
(*   delivered  number of webhook requests received so far                 *)
(*   logins     number of Steam callbacks received so far                  *)
(*   hist       per webhook handler, a record of the past: the store calls *)
(*              the current request issued, the store as it was and the    *)
(*              handlers in progress when the request arrived, the         *)
(*              previous request and its answer,                           *)
(*              whether a store call of the handler ever failed, and the   *)
(*              identities its profile-existence checks have found         *)
(*   arg, res   argument and result of a function applied on its own       *)
(***************************************************************************)
VARIABLES now, matches, matchStats, users, req, login, delivered, logins, hist, arg, res

vars == <<now, matches, matchStats, users, req, login, delivered, logins, hist, arg, res>>

Handlers == {"h1", "h2"}

IdleReq ==
  [pc |-> "idle", data |-> None, matchId |-> "", matchData |-> None,
   players |-> <<>>, idx |-> 0, aggregated |-> None, status |-> 0, sent |-> 0]

IdleHist ==
  [calls |-> <<>>, pre |-> None, prevData |-> None, prevStatus |-> 0,
   failed |-> FALSE, registered |-> {}]

IdleLogin == [pc |-> "idle", steamId |-> "", status |-> 0]

Init ==
  /\ now = 1
  /\ matches = <<>>
  /\ matchStats = <<>>
  /\ users = <<>>
  /\ req = [h \in Handlers |-> IdleReq]
  /\ login = IdleLogin
  /\ delivered = 0
  /\ logins = 0
  /\ hist = [h \in Handlers |-> IdleHist]
  /\ arg = None
  /\ res = None

\* document-store primitives: doc(key).set(data), doc(key).update(fields)
Put(store, key, doc) == (key :> doc) @@ store
Exists(store, key) == key \in DOMAIN store

Busy(h) == req[h].pc \notin {"idle", "done"}
LoginBusy == login.pc \notin {"idle", "done"}
Quiet == (\A h \in Handlers : ~Busy(h)) /\ ~LoginBusy

(***************************************************************************)
(* The webhook handler, app.post('/api/matchzy/webhook'), with             *)
(* processMatchEnd, processMapResult, processPlayerStats and               *)
(* updatePlayerAggregatedStats.  The handler runs without interruption     *)
(* from one `await` of a store call to the next; each action below is the  *)
(* completion of one store call, with a result (Ok) or an error (Fail),    *)
(* and the code that runs up to the next store call or the response.       *)
(***************************************************************************)

\* defective variant: every event but round_end is processed as a match end
IsTerminalUnlessRoundEnd(eventType) == eventType # Some("round_end")

\* the cases of `switch (eventType)` that call processMatchEnd
IsTerminal(eventType) ==
  eventType \in {Some("match_end"), Some("series_end"), Some("map_result")}

\* defective variant: players without identity are not skipped
IsSkippedNever(player) == FALSE

\* `if (!steamId) { ...; return; }` in processPlayerStats
IsSkipped(player) == SteamIdOf(player) = ""

\* defective variant: the aggregate is recomputed without the existence check
ShouldAggregateAlways(exists) == TRUE

\* defective variant: processPlayerStats returns without the aggregate
\* recomputation having run
ShouldAggregateNever(exists) == FALSE

\* `if (userDoc.exists)` in processPlayerStats
ShouldAggregate(exists) == exists

\* defective variant: processing ends and no response is sent
RespondNever(r) == [r EXCEPT !.pc = "returned", !.aggregated = None]

\* res.json({ success: true })
Respond(r) ==
  [r EXCEPT !.pc = "done", !.status = 200, !.aggregated = None, !.sent = @ + 1]

\* defective variant: the handler's catch answers success
ThrowAnswersSuccess(r) ==
  [r EXCEPT !.pc = "done", !.status = 200, !.aggregated = None, !.sent = @ + 1]

\* the `catch (err)` of the webhook handler: res.status(500).json({ error: ... })
Throw(r) ==
  [r EXCEPT !.pc = "done", !.status = 500, !.aggregated = None, !.sent = @ + 1]

\* `for (const player of allPlayers) await processPlayerStats(...)`, resumed after
\* the player at index i: players without identity return at once, the next
\* identified player reaches its matchStats write, and after the last player
\* processMatchEnd returns and the handler responds
RECURSIVE Proceed(_, _)
Proceed(r, i) ==
  IF i >= Len(r.players) THEN Respond(r)
  ELSE IF IsSkipped(r.players[i + 1].p) THEN Proceed(r, i + 1)
  ELSE [r EXCEPT !.pc = "setStats", !.idx = i + 1, !.aggregated = None]

\* defective variant: the aggregate error is rethrown to the webhook handler
AggregateRethrow(r) ==
  [r EXCEPT !.pc = "done", !.status = 500, !.aggregated = None, !.sent = @ + 1]

\* the `catch (err)` of updatePlayerAggregatedStats: log, return normally
AggregateCatch(r) == Proceed(r, r.idx)

\* history: the call, whether any call has failed so far, and the identities
\* whose profile the existence check has found
Call(h, op, coll, key, ok) ==
  hist' = [hist EXCEPT
             ![h].calls = Append(@, [op |-> op, coll |-> coll, key |-> key, ok |-> ok,
                                     idx |-> req[h].idx]),
             ![h].failed = @ \/ ~ok,
             ![h].registered = IF op = "get" /\ ok /\ Exists(users, key)
                               THEN @ \cup {key} ELSE @]

CurrentSteamId(h) == SteamIdOf(req[h].players[req[h].idx].p)

Receive(h, data) ==
  /\ ~Busy(h)
  /\ delivered < MaxDeliveries
  /\ delivered' = delivered + 1
  /\ req' = [req EXCEPT ![h] =
       IF IsTerminal(data.event)
       THEN [IdleReq EXCEPT !.pc = "setMatch", !.data = Some(data),
                            !.matchId = MatchIdOf(data, now),
                            !.matchData = Some(MatchDataOf(data, now)),
                            !.players = AllPlayersOf(data)]
       ELSE Respond([IdleReq EXCEPT !.data = Some(data)])]
  /\ hist' = [hist EXCEPT ![h] =
       [calls |-> <<>>,
        pre |-> Some([matches |-> matches, matchStats |-> matchStats, users |-> users,
                      logins |-> logins, inProgress |-> {g \in Handlers : Busy(g)}]),
        prevData |-> req[h].data,
        prevStatus |-> req[h].status,
        failed |-> hist[h].failed,
        registered |-> hist[h].registered]]
  /\ UNCHANGED <<now, matches, matchStats, users, login, logins, arg, res>>

\* await db.collection('matches').doc(matchId).set(matchData)
SetMatchOk(h) ==
  /\ req[h].pc = "setMatch"
  /\ matches' = Put(matches, req[h].matchId, MatchDoc(req[h].matchData[1], now))
  /\ req' = [req EXCEPT ![h] = Proceed(req[h], 0)]
  /\ Call(h, "set", "matches", req[h].matchId, TRUE)
  /\ UNCHANGED <<now, matchStats, users, login, delivered, logins, arg, res>>

SetMatchFail(h) ==
  /\ req[h].pc = "setMatch"
  /\ req' = [req EXCEPT ![h] = Throw(req[h])]
  /\ Call(h, "set", "matches", req[h].matchId, FALSE)
  /\ UNCHANGED <<now, matches, matchStats, users, login, delivered, logins, arg, res>>

\* await db.collection('matchStats').doc(statsId).set(stats)
SetStatsOk(h) ==
  /\ req[h].pc = "setStats"
  /\ LET statsId == StatsIdOf(req[h].matchId, CurrentSteamId(h))
     IN /\ matchStats' = Put(matchStats, statsId,
                             StatsDoc(req[h].matchId, req[h].players[req[h].idx],
                                      req[h].matchData[1], now))
        /\ Call(h, "set", "matchStats", statsId, TRUE)
  /\ req' = [req EXCEPT ![h].pc = "getUser"]
  /\ UNCHANGED <<now, matches, users, login, delivered, logins, arg, res>>

SetStatsFail(h) ==
  /\ req[h].pc = "setStats"
  /\ req' = [req EXCEPT ![h] = Throw(req[h])]
  /\ Call(h, "set", "matchStats", StatsIdOf(req[h].matchId, CurrentSteamId(h)), FALSE)
  /\ UNCHANGED <<now, matches, matchStats, users, login, delivered, logins, arg, res>>

\* const userDoc = await db.collection('users').doc(steamId).get()
GetUserOk(h) ==
  /\ req[h].pc = "getUser"
  /\ req' = [req EXCEPT ![h] =
       IF ShouldAggregate(Exists(users, CurrentSteamId(h)))
       THEN [req[h] EXCEPT !.pc = "queryStats"]
       ELSE Proceed(req[h], req[h].idx)]
  /\ Call(h, "get", "users", CurrentSteamId(h), TRUE)
  /\ UNCHANGED <<now, matches, matchStats, users, login, delivered, logins, arg, res>>

GetUserFail(h) ==
  /\ req[h].pc = "getUser"
  /\ req' = [req EXCEPT ![h] = Throw(req[h])]
  /\ Call(h, "get", "users", CurrentSteamId(h), FALSE)
  /\ UNCHANGED <<now, matches, matchStats, users, login, delivered, logins, arg, res>>

\* const statsSnapshot = await db.collection('matchStats').where(...).get(),
\* `if (statsSnapshot.empty) return`, the forEach fold and the `aggregated` object
QueryStatsOk(h) ==
  /\ req[h].pc = "queryStats"
  /\ LET snap == QueryByOderId(matchStats, CurrentSteamId(h))
     IN req' = [req EXCEPT ![h] =
          IF DOMAIN snap = {} THEN Proceed(req[h], req[h].idx)
          ELSE [req[h] EXCEPT !.pc = "updateUser",
                              !.aggregated = Some(Aggregated(snap))]]
  /\ Call(h, "query", "matchStats", CurrentSteamId(h), TRUE)
  /\ UNCHANGED <<now, matches, matchStats, users, login, delivered, logins, arg, res>>

QueryStatsFail(h) ==
  /\ req[h].pc = "queryStats"
  /\ req' = [req EXCEPT ![h] = AggregateCatch(req[h])]
  /\ Call(h, "query", "matchStats", CurrentSteamId(h), FALSE)
  /\ UNCHANGED <<now, matches, matchStats, users, login, delivered, logins, arg, res>>

\* defective variant: the write also drops the document's createdAt, as a set()
\* without merge would
ReplaceByAggregatedStats(store, steamId, aggregated, t) ==
  [store EXCEPT ![steamId].aggregatedStats = Some(AggregatedDoc(aggregated, t)),
                ![steamId].createdAt = None]

\* doc(steamId).update({ aggregatedStats: aggregated }): one field of an
\* existing document
UpdateAggregatedStats(store, steamId, aggregated, t) ==
  [store EXCEPT ![steamId].aggregatedStats = Some(AggregatedDoc(aggregated, t))]

\* await db.collection('users').doc(steamId).update({ aggregatedStats: aggregated })
UpdateUserOk(h) ==
  /\ req[h].pc = "updateUser"
  /\ Exists(users, CurrentSteamId(h))
  /\ users' = UpdateAggregatedStats(users, CurrentSteamId(h), req[h].aggregated[1], now)
  /\ req' = [req EXCEPT ![h] = Proceed(req[h], req[h].idx)]
  /\ Call(h, "update", "users", CurrentSteamId(h), TRUE)
  /\ UNCHANGED <<now, matches, matchStats, login, delivered, logins, arg, res>>

\* update() rejects when the document is missing, or on any store error
UpdateUserFail(h) ==
  /\ req[h].pc = "updateUser"
  /\ req' = [req EXCEPT ![h] = AggregateCatch(req[h])]
  /\ Call(h, "update", "users", CurrentSteamId(h), FALSE)
  /\ UNCHANGED <<now, matches, matchStats, users, login, delivered, logins, arg, res>>

(***************************************************************************)
(* The Steam callback, app.get('/auth/steam/callback'), from a verified    *)
(* identity on: the merge upsert of the profile, the read of createdAt,    *)
(* the update that sets createdAt when the document has none, then the     *)
(* token and the redirect.  A rejected authentication answers 401 before   *)
(* any store call.                                                         *)
(***************************************************************************)
Profiles ==
  {[personaname |-> "ana", avatarfull |-> "full.jpg", avatarmedium |-> "medium.jpg",
    profileurl |-> "https://steamcommunity.com/id/ana"]}

\* the object passed to set(..., { merge: true }), timestamps resolved at time t
LoginFields(steamId, profileData, t) ==
  [steamId |-> steamId,
   personaName |-> profileData.personaname,
   avatarUrl |-> profileData.avatarfull,
   avatarMedium |-> profileData.avatarmedium,
   profileUrl |-> profileData.profileurl,
   lastLogin |-> t,
   updatedAt |-> t]

\* defective variant: set without merge, the document is replaced
ReplaceUser(store, steamId, fields) ==
  Put(store, steamId, fields @@ [createdAt |-> None, aggregatedStats |-> None])

\* set with merge: the given fields are written, every other field is kept
MergeUser(store, steamId, fields) ==
  IF Exists(store, steamId) THEN Put(store, steamId, fields @@ store[steamId])
  ELSE Put(store, steamId, fields @@ [createdAt |-> None, aggregatedStats |-> None])

LoginStart(steamId) ==
  /\ ~LoginBusy
  /\ logins < MaxLogins
  /\ logins' = logins + 1
  /\ login' = [pc |-> "set", steamId |-> steamId, status |-> 0]
  /\ UNCHANGED <<now, matches, matchStats, users, req, delivered, hist, arg, res>>

\* `if (err)` or `if (!user)`: res.status(401)
LoginRejected ==
  /\ ~LoginBusy
  /\ logins < MaxLogins
  /\ logins' = logins + 1
  /\ login' = [pc |-> "done", steamId |-> "", status |-> 401]
  /\ UNCHANGED <<now, matches, matchStats, users, req, delivered, hist, arg, res>>

\* the `catch (err)` of the callback: res.status(500)
LoginThrow ==
  /\ login.pc \in {"set", "get", "update"}
  /\ login' = [login EXCEPT !.pc = "done", !.status = 500]
  /\ UNCHANGED <<now, matches, matchStats, users, req, delivered, logins, hist, arg, res>>

\* await db.collection('users').doc(steamId).set({...}, { merge: true })
LoginSet(profileData) ==
  /\ login.pc = "set"
  /\ users' = MergeUser(users, login.steamId, LoginFields(login.steamId, profileData, now))
  /\ login' = [login EXCEPT !.pc = "get"]
  /\ UNCHANGED <<now, matches, matchStats, req, delivered, logins, hist, arg, res>>

\* const userDoc = await ...get(); `if (!userDoc.data().createdAt)`
LoginGet ==
  /\ login.pc = "get"
  /\ login' = IF users[login.steamId].createdAt = None
              THEN [login EXCEPT !.pc = "update"]
              ELSE [login EXCEPT !.pc = "done", !.status = 302]
  /\ UNCHANGED <<now, matches, matchStats, users, req, delivered, logins, hist, arg, res>>

\* await ...update({ createdAt: serverTimestamp() }), then token and res.redirect
LoginUpdate ==
  /\ login.pc = "update"
  /\ users' = [users EXCEPT ![login.steamId].createdAt = Some(now)]
  /\ login' = [login EXCEPT !.pc = "done", !.status = 302]
  /\ UNCHANGED <<now, matches, matchStats, req, delivered, logins, hist, arg, res>>

\* time passes
Tick ==
  /\ now < MaxTime
  /\ now' = now + 1
  /\ UNCHANGED <<matches, matchStats, users, req, login, delivered, logins, hist, arg, res>>

(***************************************************************************)
(* Spec: webhook deliveries and logins are handled one at a time (a new    *)
(* request arrives only when no handler is suspended).                     *)
(***************************************************************************)
Step(h) ==
  \/ SetMatchOk(h) \/ SetMatchFail(h)
  \/ SetStatsOk(h) \/ SetStatsFail(h)
  \/ GetUserOk(h) \/ GetUserFail(h)
  \/ QueryStatsOk(h) \/ QueryStatsFail(h)
  \/ UpdateUserOk(h) \/ UpdateUserFail(h)

LoginStep ==
  \/ \E profileData \in Profiles : LoginSet(profileData)
  \/ LoginGet
  \/ LoginUpdate
  \/ LoginThrow

Next ==
  \/ \E data \in Payloads : Quiet /\ Receive("h1", data)
  \/ \E h \in Handlers : Step(h)
  \/ \E steamId \in SteamIds : Quiet /\ LoginStart(steamId)
  \/ Quiet /\ LoginRejected
  \/ LoginStep
  \/ Tick

Spec == Init /\ [][Next]_vars

(***************************************************************************)
(* SpecConcurrent: the runtime handles webhook requests concurrently.  A   *)
(* delivery arrives while another one is suspended at a store call, and    *)
(* the two handlers interleave at their store calls.  The store starts as  *)
(* an earlier login of the first identity left it, with its profile        *)
(* document, which another client of the store may delete.  The first delivery is taken by handler h1; a later one by    *)
(* either handler that is free, while the other is in progress or after    *)
(* it has answered.                                                        *)
(***************************************************************************)
ConcurrentPayloads ==
  {Body(Some("match_end"), Some("m1"), Some(TeamA), Some(TeamB)),
   Body(Some("match_end"), Some("m2"), Some(TeamC), Some(TeamD))}

\* the store is shared: another client deletes a profile document, which may
\* happen between a handler's existence check and its update
ProfileRemoved(steamId) ==
  /\ Exists(users, steamId)
  /\ users' = [k \in DOMAIN users \ {steamId} |-> users[k]]
  /\ UNCHANGED <<now, matches, matchStats, req, login, delivered, logins, hist, arg, res>>

RegisteredProfile(steamId, profileData, t) ==
  [MergeUser(<<>>, steamId, LoginFields(steamId, profileData, t))
     EXCEPT ![steamId].createdAt = Some(t)]

InitConcurrent ==
  /\ now = 1
  /\ matches = <<>>
  /\ matchStats = <<>>
  /\ users \in {RegisteredProfile("765611", profileData, 1) : profileData \in Profiles}
  /\ req = [h \in Handlers |-> IdleReq]
  /\ login = IdleLogin
  /\ delivered = 0
  /\ logins = 0
  /\ hist = [h \in Handlers |-> IdleHist]
  /\ arg = None
  /\ res = None

NextConcurrent ==
  \/ \E data \in ConcurrentPayloads : Receive("h1", data)
  \/ \E data \in ConcurrentPayloads : req["h1"].pc # "idle" /\ Receive("h2", data)
  \/ \E h \in Handlers : Step(h)
  \/ \E steamId \in SteamIds : ProfileRemoved(steamId)
  \/ Tick

SpecConcurrent == InitConcurrent /\ [][NextConcurrent]_vars

(***************************************************************************)
(* SpecLogin: Steam callbacks arrive while a webhook delivery is in        *)
(* progress and the other way round; the callback handler and the webhook  *)
(* handler interleave at their store calls.  The store starts with the     *)
(* profile document of the first identity.                                 *)
(***************************************************************************)
NextLogin ==
  \/ \E data \in ConcurrentPayloads : Receive("h1", data)
  \/ Step("h1")
  \/ \E steamId \in SteamIds : LoginStart(steamId)
  \/ LoginRejected
  \/ LoginStep
  \/ Tick

SpecLogin == InitConcurrent /\ [][NextLogin]_vars

(***************************************************************************)
(* SpecLive: concurrent webhook requests with every store call eventually  *)
(* returning, with a result or an error: a handler suspended at a store    *)
(* call is eventually resumed.  The clock stands still and no other client *)
(* writes to the store; a store call that fails for any reason is the      *)
(* Fail action of that call.                                               *)
(***************************************************************************)
NextLive ==
  \/ \E data \in ConcurrentPayloads : Receive("h1", data)
  \/ \E data \in ConcurrentPayloads : req["h1"].pc # "idle" /\ Receive("h2", data)
  \/ \E h \in Handlers : Step(h)

SpecLive ==
  InitConcurrent /\ [][NextLive]_vars /\ \A h \in Handlers : WF_vars(Step(h))

(***************************************************************************)
(* SpecAggregate: the fold of updatePlayerAggregatedStats applied on its   *)
(* own to a query snapshot of up to MaxRecords matchStats documents of one *)
(* identity, whose isWinner is true, false or absent (a document written   *)
(* by another writer of the collection may lack the field).                *)
(***************************************************************************)
WinnerValues == {Some(TRUE), Some(FALSE), None}

SeqsUpTo(S, n) == UNION {[1..k -> S] : k \in 0..n}

\* the snapshot with one document per entry of isWinner
SnapshotOf(isWinner) ==
  [k \in {StatsIdOf(FallbackId(i), "765611") : i \in 1..Len(isWinner)} |->
     LET i == CHOOSE j \in 1..Len(isWinner) : StatsIdOf(FallbackId(j), "765611") = k
         data == Body(Some("match_end"), None, Some(TeamA), Some(TeamB))
     IN [StatsDoc(FallbackId(i), [p |-> PlayerAna, team |-> 1], MatchDataOf(data, i), i)
           EXCEPT !.isWinner = isWinner[i]]]

InitAggregate ==
  /\ now = 1
  /\ matches = <<>>
  /\ matchStats = <<>>
  /\ users = <<>>
  /\ req = [h \in Handlers |-> IdleReq]
  /\ login = IdleLogin
  /\ delivered = 0
  /\ logins = 0
  /\ hist = [h \in Handlers |-> IdleHist]
  /\ arg \in {[fn |-> "aggregate", isWinner |-> ws] : ws \in SeqsUpTo(WinnerValues, MaxRecords)}
  /\ res = None

\* `if (statsSnapshot.empty) return`, else the fold and the `aggregated` object
Recompute ==
  /\ res = None
  /\ DOMAIN SnapshotOf(arg.isWinner) # {}
  /\ res' = Some(Aggregated(SnapshotOf(arg.isWinner)))
  /\ UNCHANGED <<now, matches, matchStats, users, req, login, delivered, logins, hist, arg>>

NextAggregate == Recompute

SpecAggregate == InitAggregate /\ [][NextAggregate]_vars

(***************************************************************************)
(* SpecScores: the score resolution and the winner computation of          *)
(* processMatchEnd applied on their own to a body whose two teams carry    *)
(* every combination of score and series_score, each absent or a number    *)
(* up to MaxScore.                                                         *)
(***************************************************************************)
ScoreValues == {None} \cup {Some(n) : n \in 0..MaxScore}

ScoredTeams ==
  {[name |-> None, score |-> sc, series_score |-> ss, players |-> None] :
     sc \in ScoreValues, ss \in ScoreValues}

InitScores ==
  /\ now = 1
  /\ matches = <<>>
  /\ matchStats = <<>>
  /\ users = <<>>
  /\ req = [h \in Handlers |-> IdleReq]
  /\ login = IdleLogin
  /\ delivered = 0
  /\ logins = 0
  /\ hist = [h \in Handlers |-> IdleHist]
  /\ arg \in {[fn |-> "matchData", team1 |-> t1, team2 |-> t2] :
               t1 \in ScoredTeams, t2 \in ScoredTeams}
  /\ res = None

\* processMatchEnd up to the matchData object
ResolveMatch ==
  /\ res = None
  /\ res' = Some(MatchDataOf(Body(Some("match_end"), Some("m1"),
                                  Some(arg.team1), Some(arg.team2)), now))
  /\ UNCHANGED <<now, matches, matchStats, users, req, login, delivered, logins, hist, arg>>

NextScores == ResolveMatch

SpecScores == InitScores /\ [][NextScores]_vars

(***************************************************************************)
(* SpecHSPercent: calculateHSPercent applied on its own to a player object *)
(* with kills and headshot_kills from 0 to MaxKills.                       *)
(***************************************************************************)
InitHSPercent ==
  /\ now = 1
  /\ matches = <<>>
  /\ matchStats = <<>>
  /\ users = <<>>
  /\ req = [h \in Handlers |-> IdleReq]
  /\ login = IdleLogin
  /\ delivered = 0
  /\ logins = 0
  /\ hist = [h \in Handlers |-> IdleHist]
  /\ arg \in {[fn |-> "calculateHSPercent", kills |-> k, headshot_kills |-> hs] :
               k \in 0..MaxKills, hs \in 0..MaxKills}
  /\ res = None

\* the player object with the two numbers as top-level properties
PlayerWith(kills, hsKills) ==
  [PlayerNoId EXCEPT !.inl = [NoStats EXCEPT !["kills"] = Some(kills),
                                             !["headshot_kills"] = Some(hsKills)]]

HSPercent ==
  /\ res = None
  /\ res' = Some(calculateHSPercent(PlayerWith(arg.kills, arg.headshot_kills)))
  /\ UNCHANGED <<now, matches, matchStats, users, req, login, delivered, logins, hist, arg>>

NextHSPercent == HSPercent

SpecHSPercent == InitHSPercent /\ [][NextHSPercent]_vars

(***************************************************************************)
(* Properties.  They read the payload and the store directly, not through  *)
(* the operators that model the handlers.                                  *)
(***************************************************************************)
TerminalEvents == {"match_end", "series_end", "map_result"}

\* request h has been answered
Answered(h) == req[h].pc = "done" /\ IsSome(req[h].data)
DataOf(h) == req[h].data[1]
HasTerminalEvent(h) == IsSome(DataOf(h).event) /\ DataOf(h).event[1] \in TerminalEvents

\* the identity a player object carries, None when it carries neither field
IdentityOf(player) ==
  IF IsSome(player.steamid) THEN player.steamid
  ELSE IF IsSome(player.steam_id) THEN player.steam_id ELSE None

\* the player objects of a body, team 1's first
TeamsOf(data) ==
  IF IsSome(data.team1) \/ IsSome(data.team2) \/ ~IsSome(data.params)
  THEN <<data.team1, data.team2>>
  ELSE <<data.params[1].team1, data.params[1].team2>>
PlayersOfTeam(team) ==
  IF IsSome(team) /\ IsSome(team[1].players) THEN team[1].players[1] ELSE <<>>
PlayerList(data) == PlayersOfTeam(TeamsOf(data)[1]) \o PlayersOfTeam(TeamsOf(data)[2])
IdentitiesIn(data) ==
  {IdentityOf(PlayerList(data)[i])[1] :
     i \in {j \in 1..Len(PlayerList(data)) : IsSome(IdentityOf(PlayerList(data)[j]))}}

\* the matches documents that hold this body, and the matchStats documents of
\* those matches for one identity
MatchDocsFor(data) == {m \in DOMAIN matches : matches[m].rawData = data}
StatDocsFor(data, steamId) ==
  {k \in DOMAIN matchStats :
     /\ matchStats[k].oderId = steamId
     /\ matchStats[k].matchId \in MatchDocsFor(data)}

\* request h is the second of two successive, successful deliveries of one body
SecondDelivery(h) ==
  /\ Answered(h)
  /\ HasTerminalEvent(h)
  /\ hist[h].prevData = req[h].data
  /\ hist[h].prevStatus = 200
  /\ req[h].status = 200

OneRecordEach(h) ==
  /\ DOMAIN matches = DOMAIN hist[h].pre[1].matches
  /\ DOMAIN matchStats = DOMAIN hist[h].pre[1].matchStats
  /\ Cardinality(MatchDocsFor(DataOf(h))) = 1
  /\ \A steamId \in IdentitiesIn(DataOf(h)) :
       Cardinality(StatDocsFor(DataOf(h), steamId)) = 1

\* C1 as claimed: for every terminal-event body, with or without matchid, the
\* second of two successive deliveries adds no document key and the store holds
\* one matches document for the body and one matchStats document per identified
\* player
C1_IdempotentAnyBody ==
  \A h \in Handlers : SecondDelivery(h) => OneRecordEach(h)

\* C1 amended: the same for every terminal-event body that carries a non-empty
\* matchid
C1_IdempotentWithMatchId ==
  \A h \in Handlers :
    (SecondDelivery(h) /\ IsSome(DataOf(h).matchid) /\ DataOf(h).matchid # Some(""))
      => OneRecordEach(h)

C1_Witness ==
  \E h \in Handlers :
    /\ SecondDelivery(h)
    /\ IsSome(DataOf(h).matchid)
    /\ Cardinality(IdentitiesIn(DataOf(h))) = 2
    /\ hist[h].pre[1].matches[DataOf(h).matchid[1]].createdAt
         < matches[DataOf(h).matchid[1]].createdAt

\* the matchStats documents of one identity, and the sum of one field over them
DocsOfIdentity(steamId) == {k \in DOMAIN matchStats : matchStats[k].oderId = steamId}
RECURSIVE FieldSum(_, _)
FieldSum(keys, f) ==
  IF keys = {} THEN 0
  ELSE LET k == CHOOSE x \in keys : TRUE
       IN matchStats[k][f] + FieldSum(keys \ {k}, f)

\* each total of the aggregate with the matchStats field it sums
TotalsAndFields ==
  {<<"totalKills", "kills">>, <<"totalDeaths", "deaths">>, <<"totalAssists", "assists">>,
   <<"totalMvps", "mvps">>, <<"totalPlants", "plants">>, <<"totalDefuses", "defuses">>,
   <<"totalClutches", "clutchesWon">>, <<"totalFirstKills", "firstKills">>,
   <<"totalFirstDeaths", "firstDeaths">>, <<"totalUtilityDamage", "utilityDamage">>,
   <<"totalEnemiesFlashed", "enemiesFlashed">>, <<"totalFlashAssists", "flashAssists">>}

IsFoldOfRecords(steamId) ==
  /\ Exists(users, steamId)
  /\ IsSome(users[steamId].aggregatedStats)
  /\ LET agg == users[steamId].aggregatedStats[1]
         keys == DocsOfIdentity(steamId)
     IN /\ agg.totalMatches = Cardinality(keys)
        /\ \A tf \in TotalsAndFields : agg[tf[1]] = FieldSum(keys, tf[2])
        /\ agg.wins = Cardinality({k \in keys : matchStats[k].isWinner = Some(TRUE)})
        /\ agg.losses = Cardinality({k \in keys : matchStats[k].isWinner = Some(FALSE)})

\* C2: with deliveries handled one at a time and no store call failing, whenever
\* no request is in progress every identity whose profile was found at the
\* ingestion of one of its stat records has an aggregatedStats whose totalMatches
\* is the number of its matchStats documents and whose totals are the sums of
\* the fields over them
C2_AggregateIsFold ==
  \A h \in Handlers :
    (Quiet /\ ~hist[h].failed) =>
      \A steamId \in hist[h].registered : IsFoldOfRecords(steamId)

C2_Witness ==
  \E h \in Handlers : \E steamId \in hist[h].registered :
    /\ Quiet /\ ~hist[h].failed
    /\ Cardinality(DocsOfIdentity(steamId)) = 2
    /\ users[steamId].aggregatedStats[1].totalKills = 3

\* C3: a request never issues a users update or an aggregate query for an
\* identity that had no users document when the request arrived; once the
\* request is answered with success the matchStats document of every such
\* player of the body exists, and as long as no login has happened since the
\* request arrived the identity still has no users document
C3_NoProfileNoUserWrite ==
  \A h \in Handlers :
    IsSome(hist[h].pre) =>
      /\ \A i \in 1..Len(hist[h].calls) :
           hist[h].calls[i].op \in {"update", "query"}
             => hist[h].calls[i].key \in DOMAIN hist[h].pre[1].users
      /\ (Answered(h) /\ HasTerminalEvent(h) /\ req[h].status = 200) =>
           \A steamId \in IdentitiesIn(DataOf(h)) \ DOMAIN hist[h].pre[1].users :
             /\ \E k \in DOMAIN matchStats :
                  /\ matchStats[k].oderId = steamId
                  /\ matchStats[k].matchId = req[h].matchId
                  /\ \E i \in 1..Len(hist[h].calls) :
                       hist[h].calls[i] \in
                         [op : {"set"}, coll : {"matchStats"}, key : {k}, ok : {TRUE},
                          idx : 1..Len(req[h].players)]
             /\ hist[h].pre[1].logins = logins => ~Exists(users, steamId)

C3_Witness ==
  \E h \in Handlers :
    /\ Answered(h) /\ HasTerminalEvent(h) /\ req[h].status = 200
    /\ hist[h].pre[1].logins = logins
    /\ "765611" \in DOMAIN users
    /\ "765612" \in IdentitiesIn(DataOf(h)) \ DOMAIN users
    /\ \E k \in DOMAIN matchStats : matchStats[k].oderId = "765612"

\* C4 as claimed: a request whose body has no event field is not answered with
\* success
C4_MissingEventFails ==
  \A h \in Handlers :
    (Answered(h) /\ DataOf(h).event = None) => req[h].status # 200

\* C5: a request whose event is present and is not match_end, series_end or
\* map_result is answered with success, issues no store call, and leaves matches
\* and matchStats (and, as long as no login has happened since, users) as they
\* were when it arrived
C5_OtherEventNoWrites ==
  \A h \in Handlers :
    (Answered(h) /\ IsSome(DataOf(h).event) /\ ~HasTerminalEvent(h)) =>
      /\ req[h].status = 200
      /\ hist[h].calls = <<>>
      /\ matches = hist[h].pre[1].matches
      /\ matchStats = hist[h].pre[1].matchStats
      /\ hist[h].pre[1].logins = logins => users = hist[h].pre[1].users

C5_Witness ==
  \E h \in Handlers :
    /\ Answered(h)
    /\ DataOf(h).event = Some("player_death")
    /\ IsSome(DataOf(h).team1)
    /\ DOMAIN matchStats # {}
    /\ DOMAIN users # {}

\* the calls of request h that failed, by operation
FailedOps(h) == {hist[h].calls[i].op : i \in {j \in 1..Len(hist[h].calls) : ~hist[h].calls[j].ok}}

\* the player at position i of the body has its matchStats document in the
\* store, written by request h
StatWritten(h, i) ==
  LET steamId == IdentityOf(PlayerList(DataOf(h))[i])[1]
  IN \E k \in DOMAIN matchStats :
       /\ matchStats[k].oderId = steamId
       /\ matchStats[k].matchId = req[h].matchId
       /\ \E c \in 1..Len(hist[h].calls) :
            hist[h].calls[c] =
              [op |-> "set", coll |-> "matchStats", key |-> k, ok |-> TRUE, idx |-> i]

IdentifiedPositions(h) ==
  {i \in 1..Len(PlayerList(DataOf(h))) : IsSome(IdentityOf(PlayerList(DataOf(h))[i]))}

\* C6: when the only store calls of a request that fail are calls of the
\* aggregate recomputation (the matchStats query or the users update), the
\* request is answered with success and the matchStats document of every
\* identified player of the body, the one whose recomputation failed and the
\* ones after it, is in the store
C6_AggregateFailureSwallowed ==
  \A h \in Handlers :
    (/\ Answered(h) /\ HasTerminalEvent(h)
     /\ FailedOps(h) # {}
     /\ FailedOps(h) \subseteq {"query", "update"}) =>
      /\ req[h].status = 200
      /\ \A i \in IdentifiedPositions(h) : StatWritten(h, i)

C6_Witness ==
  \E h \in Handlers :
    /\ Answered(h) /\ HasTerminalEvent(h)
    /\ FailedOps(h) = {"query"}
    /\ \E c \in 1..Len(hist[h].calls) : \E i \in IdentifiedPositions(h) :
         /\ ~hist[h].calls[c].ok
         /\ hist[h].calls[c].idx < i
         /\ StatWritten(h, i)

\* C7 as claimed: every request whose body has an event is answered with
\* success, whichever store call failed
C7_SuccessDespiteStoreFailure ==
  \A h \in Handlers :
    (Answered(h) /\ IsSome(DataOf(h).event)) => req[h].status = 200

\* C7 amended: a request whose body has an event is answered with status 500
\* exactly when the matches write, a matchStats write or a profile-existence
\* read failed, and with success otherwise, also when calls of the aggregate
\* recomputation failed
C7_StatusFollowsIngestionFailure ==
  \A h \in Handlers :
    (Answered(h) /\ IsSome(DataOf(h).event)) =>
      req[h].status = IF FailedOps(h) \cap {"set", "get"} # {} THEN 500 ELSE 200

C7_Witness ==
  \E h \in Handlers :
    /\ Answered(h) /\ HasTerminalEvent(h)
    /\ FailedOps(h) = {"update", "get"}
    /\ req[h].status = 500

\* C8: a request issues no store call for a player object that has neither
\* steamid nor steam_id, and once it is answered with success the matchStats
\* document of every identified player of both teams has been written
C8_NoIdentitySkipped ==
  \A h \in Handlers :
    (IsSome(req[h].data) /\ HasTerminalEvent(h)) =>
      /\ \A c \in 1..Len(hist[h].calls) :
           \/ hist[h].calls[c].idx = 0 /\ hist[h].calls[c].coll = "matches"
           \/ hist[h].calls[c].idx \in IdentifiedPositions(h)
      /\ (Answered(h) /\ req[h].status = 200) =>
           \A i \in IdentifiedPositions(h) : StatWritten(h, i)

C8_Witness ==
  \E h \in Handlers :
    /\ Answered(h) /\ HasTerminalEvent(h) /\ req[h].status = 200
    /\ \E i \in 1..Len(PlayerList(DataOf(h))) :
         /\ i \notin IdentifiedPositions(h)
         /\ i - 1 \in IdentifiedPositions(h) /\ StatWritten(h, i - 1)
         /\ i + 1 \in IdentifiedPositions(h) /\ StatWritten(h, i + 1)

\* C9 as claimed: no step changes the createdAt of a matches document that
\* already exists
C9_CreatedAtSetOnce ==
  [][\A m \in DOMAIN matches : matches'[m].createdAt = matches[m].createdAt]_vars

CountOf(ws, w) == Cardinality({i \in 1..Len(ws) : ws[i] = w})

\* C10: every aggregate computed from a snapshot counts each record in exactly
\* one of wins (isWinner true), losses (isWinner false) and draws (isWinner
\* absent), so wins + losses + draws = totalMatches, and winRate is the
\* one-decimal numeral nearest to wins / totalMatches * 100 (either neighbour
\* when the quotient is exactly half way between two);
\* isWinner [true, false, true] gives wins 2, losses 1, draws 0, winRate 66.7
C10_WinLossDrawPartition ==
  res # None =>
    LET agg == res[1]
        ws == arg.isWinner
    IN /\ agg.totalMatches = Len(ws)
       /\ agg.wins = CountOf(ws, Some(TRUE))
       /\ agg.losses = CountOf(ws, Some(FALSE))
       /\ agg.draws = CountOf(ws, None)
       /\ agg.wins + agg.losses + agg.draws = agg.totalMatches
       /\ agg.winRate.t = "str" /\ agg.winRate.d = 1
       /\ -agg.totalMatches <= 2 * (1000 * agg.wins - agg.winRate.n * agg.totalMatches)
       /\ 2 * (1000 * agg.wins - agg.winRate.n * agg.totalMatches) <= agg.totalMatches
       /\ ws = <<Some(TRUE), Some(FALSE), Some(TRUE)>> =>
            /\ agg.wins = 2 /\ agg.losses = 1 /\ agg.draws = 0
            /\ agg.winRate.n = 667

C10_Witness ==
  /\ res # None
  /\ arg.isWinner = <<Some(TRUE), Some(FALSE), Some(TRUE)>>
  /\ res[1].winRate = [t |-> "str", n |-> 667, d |-> 1]

\* C11: in every match record isDraw is (scoreTeam1 = scoreTeam2) and winner is
\* 1 when scoreTeam1 > scoreTeam2, 2 when scoreTeam2 > scoreTeam1 and 0 when they
\* are equal, so winner = 0 exactly when isDraw is true
C11_WinnerAndDraw ==
  res # None =>
    LET m == res[1]
    IN /\ m.isDraw = (m.scoreTeam1 = m.scoreTeam2)
       /\ m.scoreTeam1 > m.scoreTeam2 => m.winner = 1
       /\ m.scoreTeam2 > m.scoreTeam1 => m.winner = 2
       /\ m.scoreTeam1 = m.scoreTeam2 => m.winner = 0
       /\ (m.winner = 0) = m.isDraw

C11_Witness ==
  /\ res # None
  /\ res[1].winner = 0 /\ res[1].isDraw
  /\ res[1].scoreTeam1 = MaxScore
  /\ arg.team1.score = None /\ arg.team2.series_score = None

\* C15 as claimed: each team's score in the match record is the team's score
\* field whenever that field is present, also when it is 0; series_score when
\* score is absent; 0 when both are absent
C15_ScoreFieldWhenPresent ==
  res # None =>
    LET Resolved(team) ==
          IF IsSome(team.score) THEN team.score[1]
          ELSE IF IsSome(team.series_score) THEN team.series_score[1] ELSE 0
    IN /\ res[1].scoreTeam1 = Resolved(arg.team1)
       /\ res[1].scoreTeam2 = Resolved(arg.team2)

\* C12 as claimed: headshotPercent is 0 when kills = 0 and otherwise
\* headshotKills / kills * 100 rounded to the nearest integer, halves rounded
\* up, that is the largest integer N with 2 * kills * N <= 200 * headshotKills
\* + kills; kills 10, hs 5 gives 50 and kills 3, hs 1 gives 33
C12_RoundHalfUp ==
  res # None =>
    LET k == arg.kills
        hs == arg.headshot_kills
    IN /\ k = 0 => res[1] = 0
       /\ k > 0 => /\ 2 * k * res[1] <= 200 * hs + k
                   /\ 200 * hs + k < 2 * k * (res[1] + 1)
       /\ (k = 10 /\ hs = 5) => res[1] = 50
       /\ (k = 3 /\ hs = 1) => res[1] = 33

\* two deliveries for different matches, taken by the two handlers, both answered
\* with success without a failed store call, whose bodies both hold a player
\* with the identity steamId, which has a profile
BothCompleted(h, g, steamId) ==
  /\ h # g
  /\ Answered(h) /\ Answered(g)
  /\ HasTerminalEvent(h) /\ HasTerminalEvent(g)
  /\ req[h].status = 200 /\ req[g].status = 200
  /\ ~hist[h].failed /\ ~hist[g].failed
  /\ req[h].matchId # req[g].matchId
  /\ steamId \in IdentitiesIn(DataOf(h)) \cap IdentitiesIn(DataOf(g))
  /\ Exists(users, steamId)

\* one of the two deliveries arrived while the other was in progress
Overlapped(h, g) ==
  g \in hist[h].pre[1].inProgress \/ h \in hist[g].pre[1].inProgress

\* C13: after two concurrent deliveries for different matches with the same
\* registered player have both completed, the player's aggregatedStats counts
\* at least one and at most all of the player's matchStats documents, and it
\* counts fewer than all of them only when the two deliveries overlapped; the
\* execution in which it does count fewer is C13_Witness
C13_LostUpdateOnlyWhenConcurrent ==
  \A h, g \in Handlers : \A steamId \in SteamIds :
    BothCompleted(h, g, steamId) =>
      /\ IsSome(users[steamId].aggregatedStats)
      /\ LET n == users[steamId].aggregatedStats[1].totalMatches
             d == Cardinality(DocsOfIdentity(steamId))
         IN /\ 1 <= n /\ n <= d
            /\ n < d => Overlapped(h, g)

C13_Witness ==
  \E h, g \in Handlers : \E steamId \in SteamIds :
    /\ BothCompleted(h, g, steamId)
    /\ Overlapped(h, g)
    /\ Cardinality(DocsOfIdentity(steamId)) = 2
    /\ users[steamId].aggregatedStats[1].totalMatches = 1

\* the store call that a step of request h has just completed
CompletedCall(h) == hist'[h].calls[Len(hist'[h].calls)]
CompletesCall(h) == Len(hist'[h].calls) = Len(hist[h].calls) + 1

\* C14: a step of a webhook request leaves the set of users document keys and
\* every field of every users document other than aggregatedStats as they
\* were, and changes users only by a successful update call; an update call
\* for a profile that is missing at that time fails, leaves users unchanged
\* (no document is created) and does not fail the request
C14_OnlyAggregatedStatsChanges ==
  [][(req' # req) =>
       /\ DOMAIN users' = DOMAIN users
       /\ \A k \in DOMAIN users : \A f \in DOMAIN users[k] \ {"aggregatedStats"} :
            users'[k][f] = users[k][f]
       /\ \A h \in Handlers :
            CompletesCall(h) =>
              /\ (CompletedCall(h).op # "update" \/ ~CompletedCall(h).ok) => users' = users
              /\ (CompletedCall(h).op = "update" /\ CompletedCall(h).key \notin DOMAIN users)
                   => ~CompletedCall(h).ok /\ req'[h].status # 500]_vars

C14_Witness ==
  \E h \in Handlers : \E c \in 1..Len(hist[h].calls) :
    /\ Answered(h) /\ req[h].status = 200
    /\ hist[h].calls[c].op = "update" /\ ~hist[h].calls[c].ok
    /\ hist[h].calls[c].key \in DOMAIN hist[h].pre[1].users
    /\ IsSome(hist[h].pre[1].users[hist[h].calls[c].key].aggregatedStats)
    /\ hist[h].calls[c].key \notin DOMAIN users
    /\ FailedOps(h) = {"update"}

\* the store calls request h has completed so far, in order
CallsOf(h) == hist[h].calls

\* call c ends the processing of its player: the users update (done or failed),
\* a failed matchStats query, or the existence check that found no profile
EndsPlayer(h, c) ==
  \/ c.op = "update"
  \/ c.op = "query" /\ ~c.ok
  \/ c.op = "get" /\ c.ok /\ c.key \notin DOMAIN hist[h].pre[1].users

\* call d is the step of the same player that follows call c
NextOfSamePlayer(c, d) ==
  /\ c.ok
  /\ \/ c.op = "set" /\ c.coll = "matchStats" /\ d.op = "get"
     \/ c.op = "get" /\ d.op = "query"
     \/ c.op = "query" /\ d.op = "update"

\* C16: the store calls of one request are made one player after another, in
\* the order of the players: after the matches write every call belongs to a
\* player, a player's calls are its stat write, its existence check, its
\* query and its update in this order, and the stat write of a later player
\* follows only a call that ends the previous player's processing, so no two
\* players' query-to-update cycles of one request overlap
C16_PlayersOneAfterAnother ==
  \A h \in Handlers : \A i \in 1..Len(CallsOf(h)) :
    LET c == CallsOf(h)[i]
    IN /\ (i = 1) = (c.coll = "matches")
       /\ (i = 1) = (c.idx = 0)
       /\ i < Len(CallsOf(h)) =>
            LET d == CallsOf(h)[i + 1]
            IN /\ c.idx = 0 => c.ok
               /\ d.idx >= c.idx
               /\ d.idx = c.idx => NextOfSamePlayer(c, d)
               /\ d.idx > c.idx =>
                    /\ d.op = "set" /\ d.coll = "matchStats"
                    /\ c.idx > 0 => EndsPlayer(h, c)

C16_Witness ==
  \E h \in Handlers : \E i \in 1..Len(CallsOf(h)) - 1 :
    /\ Answered(h) /\ req[h].status = 200
    /\ CallsOf(h)[i].op = "update" /\ CallsOf(h)[i].ok
    /\ CallsOf(h)[i + 1].op = "set" /\ CallsOf(h)[i + 1].idx > CallsOf(h)[i].idx + 1

\* the matchStats documents request h has written so far
StatKeysWrittenBy(h) ==
  {CallsOf(h)[i].key :
     i \in {j \in 1..Len(CallsOf(h)) :
              CallsOf(h)[j].op = "set" /\ CallsOf(h)[j].coll = "matchStats" /\ CallsOf(h)[j].ok}}

\* C17: every matchStats document has isWinner true or false; a document a
\* request wrote has isWinner = (winner of the request's match record is the
\* player's team), false for both teams when the scores are equal; and every
\* aggregatedStats has draws = 0 and wins + losses = totalMatches, its losses
\* counting the documents with isWinner false, those of drawn matches included
C17_IsWinnerAlwaysBoolean ==
  /\ \A k \in DOMAIN matchStats : matchStats[k].isWinner \in {Some(TRUE), Some(FALSE)}
  /\ \A h \in Handlers : \A k \in StatKeysWrittenBy(h) :
       LET m == matches[matchStats[k].matchId]
       IN /\ matchStats[k].isWinner = Some(m.winner = matchStats[k].team)
          /\ m.scoreTeam1 = m.scoreTeam2 => matchStats[k].isWinner = Some(FALSE)
  /\ \A steamId \in DOMAIN users :
       IsSome(users[steamId].aggregatedStats) =>
         /\ users[steamId].aggregatedStats[1].draws = 0
         /\ users[steamId].aggregatedStats[1].wins + users[steamId].aggregatedStats[1].losses
              = users[steamId].aggregatedStats[1].totalMatches
  /\ \A h \in Handlers :
       (Quiet /\ ~hist[h].failed) =>
         \A steamId \in hist[h].registered :
           users[steamId].aggregatedStats[1].losses =
             Cardinality({k \in DocsOfIdentity(steamId) : matchStats[k].isWinner = Some(FALSE)})

C17_Witness ==
  \E h \in Handlers : \E steamId \in hist[h].registered :
    /\ Answered(h) /\ HasTerminalEvent(h) /\ req[h].status = 200 /\ ~hist[h].failed
    /\ matches[req[h].matchId].winner = 0
    /\ {matchStats[k].team : k \in StatKeysWrittenBy(h)} = {1, 2}
    /\ \A k \in StatKeysWrittenBy(h) : matchStats[k].isWinner = Some(FALSE)
    /\ users[steamId].aggregatedStats[1].losses = 1
    /\ users[steamId].aggregatedStats[1].draws = 0
    /\ users[steamId].aggregatedStats[1].totalMatches = 1

\* the fields of a users document that the login upsert writes
MergedFields ==
  {"steamId", "personaName", "avatarUrl", "avatarMedium", "profileUrl", "lastLogin",
   "updatedAt"}

\* C18: a step of the login callback keeps every users document that exists,
\* with its aggregatedStats, and with its createdAt when it has one; it changes
\* only the merged fields (identity, name, avatars, profile URL, lastLogin,
\* updatedAt) and a createdAt that was absent; this for callbacks that overlap
\* with webhook requests of the same identity
C18_LoginKeepsAggregateAndCreatedAt ==
  [][(login' # login) =>
       \A k \in DOMAIN users :
         /\ k \in DOMAIN users'
         /\ users'[k].aggregatedStats = users[k].aggregatedStats
         /\ IsSome(users[k].createdAt) => users'[k].createdAt = users[k].createdAt
         /\ \A f \in DOMAIN users[k] \ (MergedFields \cup {"createdAt"}) :
              users'[k][f] = users[k][f]
         /\ users'[k] # users[k] => k = login.steamId]_vars

C18_Witness ==
  /\ login.pc = "done" /\ login.status = 302
  /\ Busy("h1")
  /\ hist["h1"].pre[1].logins = 0
  /\ Exists(hist["h1"].pre[1].users, login.steamId)
  /\ hist["h1"].pre[1].users[login.steamId].aggregatedStats = None
  /\ IsSome(users[login.steamId].aggregatedStats)
  /\ users[login.steamId].createdAt = Some(1)
  /\ users[login.steamId].lastLogin = MaxTime

\* request h was answered only after its processing had finished: with success
\* after the last identified player's processing ended, with status 500 right
\* after the failed call that the handler's catch received
AnsweredAfterProcessing(h) ==
  LET n == Len(CallsOf(h))
  IN IF req[h].status = 500
     THEN n > 0 /\ ~CallsOf(h)[n].ok /\ CallsOf(h)[n].op \in {"set", "get"}
     ELSE /\ req[h].status = 200
          /\ HasTerminalEvent(h) =>
               /\ n > 0
               /\ \A i \in IdentifiedPositions(h) :
                    \E c \in 1..n : CallsOf(h)[c].idx = i /\ CallsOf(h)[c].op = "get"
               /\ IdentifiedPositions(h) # {} =>
                    /\ CallsOf(h)[n].idx = CHOOSE i \in IdentifiedPositions(h) :
                                             \A j \in IdentifiedPositions(h) : j <= i
                    /\ CallsOf(h)[n].op \in {"get", "query", "update"}

\* C19: with every store call eventually returning, every webhook request in
\* progress is eventually answered, with success or with status 500; no
\* request is ever sent more than one response, none before it is answered,
\* and the response comes only after all processing of the request finished
C19_EveryRequestAnsweredOnce ==
  /\ [](\A h \in Handlers :
          /\ req[h].sent <= 1
          /\ (req[h].sent = 1) = (req[h].pc = "done")
          /\ Answered(h) => AnsweredAfterProcessing(h))
  /\ \A h \in Handlers :
       Busy(h) ~> (Answered(h) /\ req[h].sent = 1 /\ req[h].status \in {200, 500})

C19_Witness ==
  /\ Answered("h1") /\ req["h1"].status = 200 /\ req["h1"].sent = 1
  /\ Answered("h2") /\ req["h2"].status = 500 /\ req["h2"].sent = 1
  /\ Overlapped("h1", "h2")
  /\ Len(CallsOf("h1")) > 5 /\ Len(CallsOf("h2")) > 5
====
